---------------------------- MODULE Spec2Model ----------------------------
(***************************************************************************)
(* A model of jni::JniHelper.hpp (reveny/Android-JNI-Helper): the          *)
(* exception bridge JNI_CHECK_EXCEPTION, ScopedLocalRef, the string        *)
(* conversions, the checked lookups, the JNITypeTraits dispatch table, the *)
(* ArgsToJValues packer and the five high-level calls, run against a small *)
(* model of a JNIEnv.                                                      *)
(*                                                                         *)
(* A C++ function that takes the JNIEnv becomes an operator that takes the *)
(* env record and gives back [env, ret, thrown, exc]: the env after the    *)
(* call, the value returned, whether a jni::JNIException left the function *)
(* and that exception.  Every JNI function the header calls appends one    *)
(* entry to env.log, so the order of foreign calls is part of the result.  *)
(***************************************************************************)
EXTENDS Naturals, Integers, Sequences, FiniteSets, TLC

VARIABLES
  fieldVal,   \* the Java-side content of the fields value and VALUE
  last,       \* the high-level call the caller has just made, with its outcome
  prev,       \* the call before that one: how it ended, and Java writes since
  guard,      \* a ScopedLocalRef<T> object in the caller's scope
  genv,       \* the JNIEnv the guard was constructed with
  gret,       \* what the guard's last get()/release() returned
  str,        \* the last string conversion made, with its outcome
  pack        \* the last ArgsToJValues object built, with its outcome

vars == <<fieldVal, last, prev, guard, genv, gret, str, pack>>

---------------------------------------------------------------------------
(* Bounds of the model.                                                    *)

\* longest argument list given to a high-level call
MaxArgs == 1
\* longest argument list given to ArgsToJValues on its own
MaxPackArgs == 2
\* longest text (in characters) given to the string conversions
MaxTextLen == 2
\* most get()/release() calls made on one guard
MaxGuardCalls == 3

---------------------------------------------------------------------------
(* Values: every jobject/jclass/jstring/jthrowable handle, every jmethodID *)
(* and jfieldID and every primitive is one record shape.                   *)
(*   kind  "null" | "prim" | "object" | "class" | "string" | "throwable"   *)
(*         | "method" | "field"                                            *)
(*   name  the Java entity the handle refers to                            *)
(*   sig   the descriptor of the member an ID refers to                    *)
(*   chars the UTF-16 content of a string                                  *)
(*   n     a primitive's value; for a local reference, the position in     *)
(*         env.log of the call that created it (0: a reference the caller  *)
(*         already held)                                                   *)

NULL == [kind |-> "null", name |-> "", sig |-> "", chars |-> <<>>, n |-> 0]

Prim(v) == [kind |-> "prim", name |-> "", sig |-> "", chars |-> <<>>, n |-> v]

Ref(k, nm, cs, i) == [kind |-> k, name |-> nm, sig |-> "", chars |-> cs, n |-> i]

\* a jmethodID or jfieldID: the member's name and descriptor
MemberID(k, nm, sg) == [kind |-> k, name |-> nm, sig |-> sg, chars |-> <<>>, n |-> 0]

IsRef(h) == h.kind \in {"object", "class", "string", "throwable"}

\* what the caller keeps of a field read when it has read nothing
NoRead == NULL

\* the object the caller holds and calls methods on
TheObject == Ref("object", "a", <<>>, 0)


---------------------------------------------------------------------------
(* The JNIEnv.  pending is the thread's pending exception (NULL: none),    *)
(* log the foreign calls issued so far.  The remaining fields are the      *)
(* runtime's choices for the current call: oom, the NewStringUTF calls     *)
(* (first, second, ...) that run out of memory; charsFail, whether         *)
(* GetStringUTFChars fails; ub, what the runtime does with a JNI function  *)
(* that is not exception-safe and is called while an exception is pending  *)
(* ("run": it runs as usual, "skip": it does nothing and returns 0,        *)
(* "abort": the runtime aborts the process, as CheckJNI does); aborted,    *)
(* that the process is gone.  fval is what the Java fields hold.            *)

NewEnv(fv, oomSet, cf, ubMode) ==
  [pending |-> NULL, log |-> <<>>, oom |-> oomSet, charsFail |-> cf,
   ub |-> ubMode, aborted |-> FALSE, fval |-> fv]

\* The JNI functions that may be called while an exception is pending.
ExceptionSafe ==
  {"ExceptionCheck", "ExceptionOccurred", "ExceptionDescribe",
   "ExceptionClear", "DeleteLocalRef", "ReleaseStringUTFChars"}

UbModes == {"run", "skip", "abort"}

Entry(env, fn, ty, h, nm, a, raised, out) ==
  [fn |-> fn, ty |-> ty, h |-> h, name |-> nm, args |-> a,
   pend |-> env.pending.name, raised |-> raised, out |-> out]

\* One JNI function call: fn/ty name the function (ty: the type in its
\* name, as in Call<ty>MethodA; for an ID lookup, the signature it is
\* given), h and nm its handle and name arguments, a the jvalue array or
\* character data it is given, fault the exception it raises when it runs
\* ("": none), out its result when it runs and raises nothing.  An entry's
\* pend is the name of the exception pending when the call was issued.
JniCall(env, fn, ty, h, nm, a, fault, out) ==
  IF env.aborted THEN [env |-> env, ret |-> NULL]
  ELSE IF env.pending # NULL /\ fn \notin ExceptionSafe /\ env.ub = "abort"
  THEN [env |-> [env EXCEPT !.aborted = TRUE,
                            !.log = Append(@, Entry(env, fn, ty, h, nm, a, FALSE, NULL))],
        ret |-> NULL]
  ELSE IF env.pending # NULL /\ fn \notin ExceptionSafe /\ env.ub = "skip"
  THEN [env |-> [env EXCEPT !.log = Append(@, Entry(env, fn, ty, h, nm, a, FALSE, NULL))],
        ret |-> NULL]
  ELSE IF fault # ""
  THEN [env |-> [env EXCEPT !.pending = Ref("throwable", fault, <<>>, 0),
                            !.log = Append(@, Entry(env, fn, ty, h, nm, a, TRUE, NULL))],
        ret |-> NULL]
  ELSE [env |-> [env EXCEPT !.log = Append(@, Entry(env, fn, ty, h, nm, a, FALSE, out))],
        ret |-> out]

\* A new local reference made by the call about to be logged.
NewLocal(env, k, nm, cs) == Ref(k, nm, cs, Len(env.log) + 1)

Env_ExceptionCheck(env) ==
  JniCall(env, "ExceptionCheck", "", NULL, "", <<>>, "", Prim(IF env.pending # NULL THEN 1 ELSE 0))

Env_ExceptionOccurred(env) ==
  JniCall(env, "ExceptionOccurred", "", NULL, "", <<>>, "",
          IF env.pending = NULL THEN NULL
          ELSE NewLocal(env, "throwable", env.pending.name, <<>>))

Env_ExceptionDescribe(env) ==
  JniCall(env, "ExceptionDescribe", "", NULL, "", <<>>, "", NULL)

Env_ExceptionClear(env) ==
  LET r == JniCall(env, "ExceptionClear", "", NULL, "", <<>>, "", NULL)
  IN  IF env.aborted THEN r ELSE [r EXCEPT !.env.pending = NULL]

Env_DeleteLocalRef(env, ref) ==
  JniCall(env, "DeleteLocalRef", "", ref, "", <<>>, "", NULL)

---------------------------------------------------------------------------
(* class JNIException and the macro JNI_CHECK_EXCEPTION.                   *)

NoException == [what |-> "", javaThrowable |-> NULL]

JNIException(message, javaException) ==
  [what |-> message, javaThrowable |-> javaException]

getJavaException(e) == e.javaThrowable

Returned(env, v) == [env |-> env, ret |-> v, thrown |-> FALSE, exc |-> NoException]

Thrown(env, e) == [env |-> env, ret |-> NULL, thrown |-> TRUE, exc |-> e]

\* the macro's then-branch after ExceptionOccurred (o): describe, and throw
\* with the exception left pending
Rethrow_NoClear(o) ==
  Thrown(Env_ExceptionDescribe(o.env).env,
         JNIException("JNI exception occurred", o.ret))

\* the macro's then-branch after ExceptionOccurred (o): describe, clear, throw
Rethrow(o) ==
  Thrown(Env_ExceptionClear(Env_ExceptionDescribe(o.env).env).env,
         JNIException("JNI exception occurred", o.ret))

\* the macro's if, on the result c of ExceptionCheck
IfPending(c) ==
  IF c.ret = Prim(1) THEN Rethrow(Env_ExceptionOccurred(c.env))
  ELSE Returned(c.env, NULL)

JNI_CHECK_EXCEPTION(env) == IfPending(Env_ExceptionCheck(env))

\* "stmt; JNI_CHECK_EXCEPTION(env); return result;" for a JNI call r
Checked(r) ==
  LET k == JNI_CHECK_EXCEPTION(r.env)
  IN  IF k.thrown THEN k ELSE Returned(k.env, r.ret)

---------------------------------------------------------------------------
(* template class ScopedLocalRef<T>: the object is the record [ref_].      *)

ScopedLocalRef(ref) == [ref_ |-> ref]

\* a destructor that deletes without looking at ref_
ScopedLocalRef_dtor_Unconditional(env, g) == Env_DeleteLocalRef(env, g.ref_).env

ScopedLocalRef_dtor(env, g) ==
  IF g.ref_ # NULL THEN Env_DeleteLocalRef(env, g.ref_).env ELSE env

ScopedLocalRef_get(g) == [guard |-> g, ret |-> g.ref_]

\* a release() that hands the handle out and keeps it
ScopedLocalRef_release_Keep(g) == [guard |-> g, ret |-> g.ref_]

ScopedLocalRef_release(g) ==
  LET temp == g.ref_
  IN  [guard |-> [g EXCEPT !.ref_ = NULL], ret |-> temp]

---------------------------------------------------------------------------
(* Character data.  A std::string and a C string are sequences of bytes; a *)
(* Java string is a sequence of UTF-16 units.  NewStringUTF reads modified *)
(* UTF-8 up to the first 0 byte; GetStringUTFChars writes modified UTF-8   *)
(* and a terminating 0 (U+0000 is written as the two bytes C0 80).  Only   *)
(* the one- and two-byte forms are modelled (characters below U+0800).     *)

\* the bytes of a NUL-terminated array up to its terminator
RECURSIVE CStr(_)
CStr(p) ==
  IF p = <<>> \/ Head(p) = 0 THEN <<>> ELSE <<Head(p)>> \o CStr(Tail(p))

\* std::string::c_str(): the content followed by a terminator
c_str(s) == s \o <<0>>

\* b starts with a two-byte form: 110xxxxx 10xxxxxx
TwoByte(b) == Len(b) >= 2 /\ Head(b) \in 192..223 /\ b[2] \in 128..191

\* b is modified UTF-8: the two-byte form is that of U+0000 and of the
\* characters from U+0080 on
RECURSIVE WellFormed(_)
WellFormed(b) ==
  IF b = <<>> THEN TRUE
  ELSE IF Head(b) < 128 THEN WellFormed(Tail(b))
  ELSE /\ TwoByte(b)
       /\ (Head(b) >= 194 \/ (Head(b) = 192 /\ b[2] = 128))
       /\ WellFormed(Tail(Tail(b)))

\* modified UTF-8 to UTF-16 units, as a runtime that does not check its
\* input reads it: a byte that starts no form is taken for a character
RECURSIVE Utf8Decode(_)
Utf8Decode(b) ==
  IF b = <<>> THEN <<>>
  ELSE IF TwoByte(b)
       THEN <<(Head(b) - 192) * 64 + (b[2] - 128)>> \o Utf8Decode(Tail(Tail(b)))
       ELSE <<Head(b)>> \o Utf8Decode(Tail(b))

\* UTF-16 units (below U+0800) to modified UTF-8
RECURSIVE Utf8Encode(_)
Utf8Encode(c) ==
  IF c = <<>> THEN <<>>
  ELSE (IF Head(c) # 0 /\ Head(c) < 128
        THEN <<Head(c)>>
        ELSE <<192 + (Head(c) \div 64), 128 + (Head(c) % 64)>>)
       \o Utf8Encode(Tail(c))

\* how many entries of the log are calls of fn
RECURSIVE CountCalls(_, _)
CountCalls(log, fn) ==
  IF log = <<>> THEN 0
  ELSE (IF Head(log).fn = fn THEN 1 ELSE 0) + CountCalls(Tail(log), fn)

\* env->NewStringUTF(bytes): bytes points at a NUL-terminated array.  For
\* bytes that are not modified UTF-8 the JNI specification defines nothing:
\* a checking runtime aborts the process, another reads them as it can.
Env_NewStringUTF(env, bytes) ==
  IF ~WellFormed(CStr(bytes)) /\ env.ub = "abort" /\ ~env.aborted
  THEN [env |-> [env EXCEPT !.aborted = TRUE,
                   !.log = Append(@, Entry(env, "NewStringUTF", "", NULL, "",
                                           CStr(bytes), FALSE, NULL))],
        ret |-> NULL]
  ELSE
  JniCall(env, "NewStringUTF", "", NULL, "", CStr(bytes),
          IF (CountCalls(env.log, "NewStringUTF") + 1) \in env.oom
          THEN "java/lang/OutOfMemoryError" ELSE "",
          NewLocal(env, "string", "", Utf8Decode(CStr(bytes))))

\* env->GetStringUTFChars(jstr, nullptr): the buffer, or NULL
Env_GetStringUTFChars(env, jstr) ==
  JniCall(env, "GetStringUTFChars", "", jstr, "", <<>>,
          IF env.charsFail THEN "java/lang/OutOfMemoryError" ELSE "",
          Ref("chars", "", Utf8Encode(jstr.chars) \o <<0>>, Len(env.log) + 1))

Env_ReleaseStringUTFChars(env, jstr, chars) ==
  JniCall(env, "ReleaseStringUTFChars", "", jstr, "", chars.chars, "", NULL)

\* a copy that leaves the buffer with the runtime
CopyAndRelease_NoRelease(g, jstr) ==
  IF g.ret = NULL THEN [env |-> g.env, ret |-> <<>>]
  ELSE [env |-> g.env, ret |-> CStr(g.ret.chars)]

\* JStringToString after GetStringUTFChars (g): "if (!chars) return {};
\* std::string result(chars); ReleaseStringUTFChars; return result;"
CopyAndRelease(g, jstr) ==
  IF g.ret = NULL THEN [env |-> g.env, ret |-> <<>>]
  ELSE [env |-> Env_ReleaseStringUTFChars(g.env, jstr, g.ret).env,
        ret |-> CStr(g.ret.chars)]

\* a conversion that asks the runtime for the characters of a null handle
JStringToString_NoNullTest(env, jstr) ==
  CopyAndRelease(Env_GetStringUTFChars(env, jstr), jstr)

JStringToString(env, jstr) ==
  IF jstr = NULL THEN [env |-> env, ret |-> <<>>]
  ELSE CopyAndRelease(Env_GetStringUTFChars(env, jstr), jstr)

StringToJString(env, s) == Env_NewStringUTF(env, c_str(s))

---------------------------------------------------------------------------
(* The Java world.  Class A declares, for every type T of JavaTypes (a     *)
(* class file may hold members that differ in their descriptor alone):     *)
(*     T value;  static T VALUE;                  (none for void)          *)
(*     T get(...)  { return value; }   T boom(...)  { throw ...; }         *)
(*     static T sget(...) { return VALUE; }  static T sboom(...) {throw..} *)
(*     A(...) {}                                                           *)
(* Its fields all hold the same content, env.fval (0 or 1: for a reference *)
(* type, null or an object).  Class Bomb declares a constructor that       *)
(* throws, and there is no class Missing.  A method signature is modelled  *)
(* by its return descriptor: the argument part is taken to agree with the  *)
(* arguments passed.                                                       *)

\* the types JNITypeTraits is specialised for
TraitTypes ==
  {"jobject", "jstring", "void", "jboolean", "jbyte", "jchar", "jshort",
   "jint", "jlong", "jfloat", "jdouble"}

\* a reference type convertible to jobject that has no specialisation
OtherRefTypes == {"jclass"}

RefTypes == {"jobject", "jstring"} \cup OtherRefTypes

JavaTypes == TraitTypes \cup OtherRefTypes

\* the type descriptor of a value of type T
Descriptor(T) ==
  CASE T = "jobject"  -> "Ljava/lang/Object;"
    [] T = "jstring"  -> "Ljava/lang/String;"
    [] T = "jclass"   -> "Ljava/lang/Class;"
    [] T = "void"     -> "V"
    [] T = "jboolean" -> "Z"
    [] T = "jbyte"    -> "B"
    [] T = "jchar"    -> "C"
    [] T = "jshort"   -> "S"
    [] T = "jint"     -> "I"
    [] T = "jlong"    -> "J"
    [] T = "jfloat"   -> "F"
    [] T = "jdouble"  -> "D"

\* a descriptor that no member of A has
NoSuchDescriptor == "[I"

MemberDescriptors == {Descriptor(T) : T \in JavaTypes}

FieldDescriptors == MemberDescriptors \ {"V"}

TypeOf(sg) == CHOOSE T \in JavaTypes : Descriptor(T) = sg

\* the <Type> in the name of the JNI function for T (Get<Type>Field, ...)
TypeTag(T) ==
  CASE T \in RefTypes -> "Object"
    [] T = "void"     -> "Void"
    [] T = "jboolean" -> "Boolean"
    [] T = "jbyte"    -> "Byte"
    [] T = "jchar"    -> "Char"
    [] T = "jshort"   -> "Short"
    [] T = "jint"     -> "Int"
    [] T = "jlong"    -> "Long"
    [] T = "jfloat"   -> "Float"
    [] T = "jdouble"  -> "Double"

\* what a member of type T holds when the fields' content is fv, as the
\* call about to be logged returns it
JavaValue(env, T, fv) ==
  CASE T = "void"    -> NULL
    [] T = "jobject" -> IF fv = 0 THEN NULL ELSE NewLocal(env, "object", "b", <<>>)
    [] T = "jstring" -> IF fv = 0 THEN NULL ELSE NewLocal(env, "string", "", <<97>>)
    [] T = "jclass"  -> IF fv = 0 THEN NULL ELSE NewLocal(env, "class", "A", <<>>)
    [] OTHER         -> Prim(fv)

\* what a Get<Type>Field of the wrong <Type> returns when the runtime goes
\* on: bits of one type read as another
Garbage(env, tag) ==
  IF tag = "Object" THEN NewLocal(env, "object", "?", <<>>) ELSE Prim(0)

Env_GetObjectClass(env, obj) ==
  JniCall(env, "GetObjectClass", "", obj, "", <<>>, "",
          NewLocal(env, "class", "A", <<>>))

Env_FindClass(env, className) ==
  JniCall(env, "FindClass", "", NULL, className, <<>>,
          IF className \in {"A", "Bomb"} THEN "" ELSE "java/lang/NoClassDefFoundError",
          NewLocal(env, "class", className, <<>>))

Env_GetMethodID(env, cls, methodName, signature) ==
  JniCall(env, "GetMethodID", signature, cls, methodName, <<>>,
          IF \/ methodName \in {"get", "boom"} /\ cls.name = "A"
                /\ signature \in MemberDescriptors
             \/ methodName = "<init>" /\ signature = "V"
          THEN "" ELSE "java/lang/NoSuchMethodError",
          MemberID("method", methodName, signature))

Env_GetStaticMethodID(env, cls, methodName, signature) ==
  JniCall(env, "GetStaticMethodID", signature, cls, methodName, <<>>,
          IF methodName \in {"sget", "sboom"} /\ cls.name = "A"
             /\ signature \in MemberDescriptors
          THEN "" ELSE "java/lang/NoSuchMethodError",
          MemberID("method", methodName, signature))

Env_GetFieldID(env, cls, fieldName, signature) ==
  JniCall(env, "GetFieldID", signature, cls, fieldName, <<>>,
          IF fieldName = "value" /\ cls.name = "A" /\ signature \in FieldDescriptors
          THEN "" ELSE "java/lang/NoSuchFieldError",
          MemberID("field", fieldName, signature))

Env_GetStaticFieldID(env, cls, fieldName, signature) ==
  JniCall(env, "GetStaticFieldID", signature, cls, fieldName, <<>>,
          IF fieldName = "VALUE" /\ cls.name = "A" /\ signature \in FieldDescriptors
          THEN "" ELSE "java/lang/NoSuchFieldError",
          MemberID("field", fieldName, signature))

\* a JNI call the JNI specification leaves undefined (a null ID, a
\* Get<Type>Field of the wrong <Type>): the runtime aborts the process, or
\* goes on and returns what it finds
Undefined(env, fn, tag, h, nm, a) ==
  IF env.ub = "abort" /\ ~env.aborted
  THEN [env |-> [env EXCEPT !.aborted = TRUE,
                   !.log = Append(@, Entry(env, fn, tag, h, nm, a, FALSE, NULL))],
        ret |-> NULL]
  ELSE JniCall(env, fn, tag, h, nm, a, "", Garbage(env, tag))

\* Get<tag>Field and GetStatic<tag>Field (fn names which): reading a field
\* through the function of another type is undefined
Env_GetField(env, fn, tag, h, fid) ==
  IF fid = NULL THEN Undefined(env, fn, tag, h, "", <<>>)
  ELSE IF tag = TypeTag(TypeOf(fid.sig))
  THEN JniCall(env, fn, tag, h, fid.name, <<>>, "",
               JavaValue(env, TypeOf(fid.sig), env.fval))
  ELSE Undefined(env, fn, tag, h, fid.name, <<>>)

\* Call<tag>Method, Call<tag>MethodA and their static forms (fn names
\* which); a is the jvalue array of the A forms.  The callers below ask
\* for the <tag> of the method's own return type.
Env_CallMethod(env, fn, tag, h, mid, a) ==
  IF mid = NULL THEN Undefined(env, fn, tag, h, "", a)
  ELSE
  JniCall(env, fn, tag, h, mid.name, a,
          IF mid.name \in {"boom", "sboom"} THEN "java/lang/RuntimeException" ELSE "",
          JavaValue(env, TypeOf(mid.sig), env.fval))

Env_NewObjectA(env, cls, constructor, a) ==
  IF constructor = NULL THEN Undefined(env, "NewObjectA", "Object", cls, "", a)
  ELSE
  JniCall(env, "NewObjectA", "", cls, constructor.name, a,
          IF cls.name = "Bomb" THEN "java/lang/RuntimeException" ELSE "",
          NewLocal(env, "object", cls.name, <<>>))

---------------------------------------------------------------------------
(* The checked lookups.                                                    *)

FindClass(env, className) == Checked(Env_FindClass(env, className))

\* a lookup that returns the ID without the check
GetMethodID_Unchecked(env, cls, methodName, signature) ==
  LET mid == Env_GetMethodID(env, cls, methodName, signature)
  IN  Returned(mid.env, mid.ret)

GetMethodID(env, cls, methodName, signature) ==
  Checked(Env_GetMethodID(env, cls, methodName, signature))

GetStaticMethodID(env, cls, methodName, signature) ==
  Checked(Env_GetStaticMethodID(env, cls, methodName, signature))

GetFieldID(env, cls, fieldName, signature) ==
  Checked(Env_GetFieldID(env, cls, fieldName, signature))

GetStaticFieldID(env, cls, fieldName, signature) ==
  Checked(Env_GetStaticFieldID(env, cls, fieldName, signature))

---------------------------------------------------------------------------
(* template struct JNITypeTraits<T>, one specialisation per T in           *)
(* TraitTypes; the specialisation is the first parameter.                  *)

\* (there is no JNITypeTraits<T> for any other T: using one does not compile)
JNITypeTraits_signature(T) == CASE T \in TraitTypes -> Descriptor(T)

JNITypeTraits_GetField(T, env, obj, fid) ==
  Checked(Env_GetField(env, "GetField", TypeTag(T), obj, fid))

JNITypeTraits_GetStaticField(T, env, cls, fid) ==
  Checked(Env_GetField(env, "GetStaticField", TypeTag(T), cls, fid))

JNITypeTraits_CallMethod(T, env, obj, mid, args) ==
  Checked(Env_CallMethod(env, "CallMethodA", TypeTag(T), obj, mid, args))

JNITypeTraits_CallStaticMethod(T, env, cls, mid, args) ==
  Checked(Env_CallMethod(env, "CallStaticMethodA", TypeTag(T), cls, mid, args))

---------------------------------------------------------------------------
(* template class ArgsToJValues<Args...>.  An argument is [cpp, v]: its    *)
(* C++ type and its value (a std::string's bytes, and the array a non-null *)
(* const char* points at, are held in v.chars).  A jvalue cell is          *)
(* [slot, v]: the union member last written ("": none, the cell is         *)
(* uninitialised) and its value.  The object is [env, values_, writes]:    *)
(* the env after construction, the array, and the indices written, in      *)
(* order.                                                                  *)

PrimTypes ==
  {"jboolean", "jbyte", "jchar", "jshort", "jint", "jlong", "jfloat", "jdouble"}

Uninitialised == [slot |-> "", v |-> NULL]

\* jvalue values_[sizeof...(Args) > 0 ? sizeof...(Args) : 1]
values_decl(n) == [i \in 1..(IF n > 0 THEN n ELSE 1) |-> Uninitialised]

\* the union member of a primitive type
Slot(cpp) ==
  CASE cpp = "jboolean" -> "z"
    [] cpp = "jbyte"    -> "b"
    [] cpp = "jchar"    -> "c"
    [] cpp = "jshort"   -> "s"
    [] cpp = "jint"     -> "i"
    [] cpp = "jlong"    -> "j"
    [] cpp = "jfloat"   -> "f"
    [] cpp = "jdouble"  -> "d"
    [] OTHER            -> "l"

\* values_[index].<slot> = v   (index counts from 0)
Store(o, env, index, slot, v) ==
  [env |-> env,
   values_ |-> [o.values_ EXCEPT ![index + 1] = [slot |-> slot, v |-> v]],
   writes |-> Append(o.writes, index)]

\* a setJValue that holds the string it makes in a ScopedLocalRef of its own
setJValue_Scoped(o, index, arg) ==
  CASE arg.cpp \in PrimTypes -> Store(o, o.env, index, Slot(arg.cpp), arg.v)
    [] arg.cpp = "nullptr_t" -> Store(o, o.env, index, "l", NULL)
    [] arg.cpp \in RefTypes  -> Store(o, o.env, index, "l", arg.v)
    [] arg.cpp = "std::string" ->
         LET jstr == StringToJString(o.env, arg.v.chars)
         IN  Store(o, ScopedLocalRef_dtor(jstr.env, ScopedLocalRef(jstr.ret)),
                   index, "l", jstr.ret)
    [] arg.cpp = "const char*" ->
         IF arg.v = NULL
         THEN Store(o, o.env, index, "l", NULL)
         ELSE LET jstr == Env_NewStringUTF(o.env, arg.v.chars)
              IN  Store(o, ScopedLocalRef_dtor(jstr.env, ScopedLocalRef(jstr.ret)),
                        index, "l", jstr.ret)

\* the overload of setJValue chosen for the argument's C++ type
setJValue(o, index, arg) ==
  CASE arg.cpp \in PrimTypes -> Store(o, o.env, index, Slot(arg.cpp), arg.v)
    [] arg.cpp = "nullptr_t" -> Store(o, o.env, index, "l", NULL)
    [] arg.cpp \in RefTypes  -> Store(o, o.env, index, "l", arg.v)
    [] arg.cpp = "std::string" ->
         LET jstr == StringToJString(o.env, arg.v.chars)
         IN  Store(o, jstr.env, index, "l", jstr.ret)
    [] arg.cpp = "const char*" ->
         IF arg.v = NULL
         THEN Store(o, o.env, index, "l", NULL)
         ELSE LET jstr == Env_NewStringUTF(o.env, arg.v.chars)
              IN  Store(o, jstr.env, index, "l", jstr.ret)

\* a packer that writes every argument into cell 0
RECURSIVE convertArgs_SameCell(_, _, _)
convertArgs_SameCell(o, index, args) ==
  IF args = <<>> THEN o
  ELSE convertArgs_SameCell(setJValue(o, 0, Head(args)), index + 1, Tail(args))

RECURSIVE convertArgs(_, _, _)
convertArgs(o, index, args) ==
  IF args = <<>> THEN o
  ELSE convertArgs(setJValue(o, index, Head(args)), index + 1, Tail(args))

ArgsToJValues(env, args) ==
  convertArgs([env |-> env, values_ |-> values_decl(Len(args)), writes |-> <<>>],
              0, args)

ArgsToJValues_get(o) == o.values_

---------------------------------------------------------------------------
(* The high-level calls.  RetType and T are the template arguments; an     *)
(* absent signature argument of GetField/GetStaticField is "".  The        *)
(* ScopedLocalRef clsRef is destroyed when the function is left, by return *)
(* or by exception, after the result has been computed.                    *)

\* a release written before each return, which a throw passes by
Leave_OnReturnOnly(body, clsRef) ==
  IF body.thrown THEN body
  ELSE [body EXCEPT !.env = ScopedLocalRef_dtor(body.env, clsRef)]

\* leaving a function whose clsRef is in scope: ~ScopedLocalRef runs
Leave(body, clsRef) == [body EXCEPT !.env = ScopedLocalRef_dtor(body.env, clsRef)]

\* a CallMethod without the zero-argument branch
CallMethod_invoke_AlwaysArray(RetType, mid, obj, args) ==
  IF mid.thrown THEN mid
  ELSE JNITypeTraits_CallMethod(RetType, ArgsToJValues(mid.env, args).env, obj, mid.ret,
                                ArgsToJValues_get(ArgsToJValues(mid.env, args)))

\* CallMethod once the method ID is there (mid, the outcome of GetMethodID)
CallMethod_invoke(RetType, mid, obj, args) ==
  IF mid.thrown THEN mid
  ELSE IF Len(args) = 0
  THEN Checked(Env_CallMethod(mid.env, "CallMethod", TypeTag(RetType),
                              obj, mid.ret, <<>>))
  ELSE LET jvalues == ArgsToJValues(mid.env, args)
       IN  JNITypeTraits_CallMethod(RetType, jvalues.env, obj, mid.ret,
                                    ArgsToJValues_get(jvalues))

\* CallMethod once the class is there (c, the outcome of GetObjectClass)
CallMethod_cls(RetType, c, obj, methodName, signature, args) ==
  Leave(CallMethod_invoke(RetType, GetMethodID(c.env, c.ret, methodName, signature),
                          obj, args),
        ScopedLocalRef(c.ret))

CallMethod(RetType, env, obj, methodName, signature, args) ==
  CallMethod_cls(RetType, Env_GetObjectClass(env, obj), obj, methodName, signature, args)

CallStaticMethod_invoke(RetType, mid, cls, args) ==
  IF mid.thrown THEN mid
  ELSE IF Len(args) = 0
  THEN Checked(Env_CallMethod(mid.env, "CallStaticMethod", TypeTag(RetType),
                              cls, mid.ret, <<>>))
  ELSE LET jvalues == ArgsToJValues(mid.env, args)
       IN  JNITypeTraits_CallStaticMethod(RetType, jvalues.env, cls, mid.ret,
                                          ArgsToJValues_get(jvalues))

\* CallStaticMethod after FindClass (c): an exception thrown there leaves
\* the function before clsRef exists
CallStaticMethod_cls(RetType, c, methodName, signature, args) ==
  IF c.thrown THEN c
  ELSE Leave(CallStaticMethod_invoke(RetType,
                 GetStaticMethodID(c.env, c.ret, methodName, signature), c.ret, args),
             ScopedLocalRef(c.ret))

CallStaticMethod(RetType, env, className, methodName, signature, args) ==
  CallStaticMethod_cls(RetType, FindClass(env, className), methodName, signature, args)

\* a NewObject that packs its arguments whether or not the lookup threw
NewObject_invoke_PackFirst(constructor, cls, args) ==
  LET jvalues == ArgsToJValues(constructor.env, args)
  IN  IF constructor.thrown THEN [constructor EXCEPT !.env = jvalues.env]
      ELSE Checked(Env_NewObjectA(jvalues.env, cls, constructor.ret,
                                  ArgsToJValues_get(jvalues)))

NewObject_invoke(constructor, cls, args) ==
  IF constructor.thrown THEN constructor
  ELSE LET jvalues == ArgsToJValues(constructor.env, args)
       IN  Checked(Env_NewObjectA(jvalues.env, cls, constructor.ret,
                                  ArgsToJValues_get(jvalues)))

NewObject_cls(c, constructorSignature, args) ==
  IF c.thrown THEN c
  ELSE Leave(NewObject_invoke(GetMethodID(c.env, c.ret, "<init>", constructorSignature),
                              c.ret, args),
             ScopedLocalRef(c.ret))

NewObject(env, className, constructorSignature, args) ==
  NewObject_cls(FindClass(env, className), constructorSignature, args)

\* a choice of signature that ignores the caller's
fieldSig_TraitsOnly(T, signature) ==
  IF T \in TraitTypes THEN JNITypeTraits_signature(T) ELSE JNITypeTraits_signature("jobject")

\* "const char* fieldSig = signature ? signature : JNITypeTraits<T>::signature"
fieldSig(T, signature) ==
  IF signature # "" THEN signature ELSE JNITypeTraits_signature(T)

\* a read that hands out what the last read gave instead of asking the runtime
GetField_read_Cached(T, fid, obj, signature) ==
  IF fid.thrown THEN fid
  ELSE IF prev.read # NoRead THEN Returned(fid.env, prev.read)
  ELSE IF signature # ""
  THEN JNITypeTraits_GetField("jobject", fid.env, obj, fid.ret)
  ELSE JNITypeTraits_GetField(T, fid.env, obj, fid.ret)

\* GetField once the field ID is there (fid, the outcome of GetFieldID)
GetField_read(T, fid, obj, signature) ==
  IF fid.thrown THEN fid
  ELSE IF signature # ""
  THEN JNITypeTraits_GetField("jobject", fid.env, obj, fid.ret)
  ELSE JNITypeTraits_GetField(T, fid.env, obj, fid.ret)

GetField_cls(T, c, obj, fieldName, signature) ==
  Leave(GetField_read(T, GetFieldID(c.env, c.ret, fieldName, fieldSig(T, signature)),
                      obj, signature),
        ScopedLocalRef(c.ret))

GetField(T, env, obj, fieldName, signature) ==
  GetField_cls(T, Env_GetObjectClass(env, obj), obj, fieldName, signature)

GetStaticField_read(T, fid, cls, signature) ==
  IF fid.thrown THEN fid
  ELSE IF signature # ""
  THEN JNITypeTraits_GetStaticField("jobject", fid.env, cls, fid.ret)
  ELSE JNITypeTraits_GetStaticField(T, fid.env, cls, fid.ret)

GetStaticField_cls(T, c, fieldName, signature) ==
  IF c.thrown THEN c
  ELSE Leave(GetStaticField_read(T,
                 GetStaticFieldID(c.env, c.ret, fieldName, fieldSig(T, signature)),
                 c.ret, signature),
             ScopedLocalRef(c.ret))

GetStaticField(T, env, className, fieldName, signature) ==
  GetStaticField_cls(T, FindClass(env, className), fieldName, signature)

---------------------------------------------------------------------------
(* The caller of the high-level calls.  It makes one call at a time on    *)
(* its thread's env, looks at the outcome (Resume) and goes on with         *)
(* whatever that call left pending; between its calls the Java side may    *)
(* write the fields.                                                       *)

SeqsUpTo(S, n) == UNION {[1..k -> S] : k \in 0..n}

Text(bytes) == Ref("text", "", bytes, 0)

\* the arguments a caller passes to a high-level call
CallArgs ==
  {[cpp |-> "jint", v |-> Prim(1)],
   [cpp |-> "nullptr_t", v |-> NULL],
   [cpp |-> "jobject", v |-> TheObject],
   [cpp |-> "std::string", v |-> Text(<<97>>)],
   [cpp |-> "const char*", v |-> NULL],
   [cpp |-> "const char*", v |-> Text(<<97, 0>>)]}

\* the arguments for which the packer calls NewStringUTF
IsStringArg(arg) ==
  arg.cpp = "std::string" \/ (arg.cpp = "const char*" /\ arg.v # NULL)

NumStrings(args) == Cardinality({i \in DOMAIN args : IsStringArg(args[i])})

\* the runtime's choices for a call that packs args
Oracles(args) ==
  {[oom |-> o, ub |-> u] : o \in SUBSET (1..NumStrings(args)), u \in UbModes}
  \ {[oom |-> {}, ub |-> u] : u \in UbModes \ {"run"}}

\* the (name, signature) pairs a caller asks for: a member that returns, a
\* member that throws, a name that does not exist, a signature that does not
\* match
Targets(T, ok, bad) ==
  {[name |-> ok, sig |-> Descriptor(T)], [name |-> bad, sig |-> Descriptor(T)],
   [name |-> "nope", sig |-> Descriptor(T)], [name |-> ok, sig |-> NoSuchDescriptor]}

\* the signature argument a caller of GetField<T> may give: none (T has a
\* JNITypeTraits specialisation), or, T being a reference type as the
\* static_cast requires, T's descriptor, the descriptor of the int field, or
\* a descriptor no field has
Overrides(T) ==
  (IF T \in TraitTypes THEN {""} ELSE {})
  \cup (IF T \in RefTypes THEN {Descriptor(T), "I", NoSuchDescriptor} ELSE {})

\* the runtime's choices for a field read
FieldUb(sig) == IF sig = "I" THEN UbModes ELSE {"run"}

Idle == [op |-> "none"]

NoPrev ==
  [cause |-> "none", what |-> "", pending |-> NULL, read |-> NoRead, wrote |-> FALSE]

\* the JNIEnv the caller makes its next call on: the thread's, with whatever
\* the call before left pending, and the runtime's choices for this call
CallerEnv(oomSet, ubMode) ==
  [NewEnv(fieldVal, oomSet, FALSE, ubMode) EXCEPT !.pending = prev.pending]

Raised(log) == {i \in DOMAIN log : log[i].raised}

\* the JNI functions that run the target of a high-level call
TargetFns ==
  {"CallMethod", "CallMethodA", "CallStaticMethod", "CallStaticMethodA",
   "NewObjectA", "GetField", "GetStaticField"}

LookupFns == {"GetMethodID", "GetStaticMethodID", "GetFieldID", "GetStaticFieldID"}

RaisedIn(log, fns) == \E i \in Raised(log) : log[i].fn \in fns

\* how a call ended, for the caller
Cause(res) ==
  IF ~res.thrown THEN "ok"
  ELSE IF RaisedIn(res.env.log, TargetFns) THEN "target"
  ELSE IF RaisedIn(res.env.log, LookupFns) THEN "lookup"
  ELSE IF RaisedIn(res.env.log, {"FindClass"}) THEN "class"
  ELSE "other"

\* the Java content (0 or 1) of a value read from a field
Content(v) == IF v.kind = "prim" THEN v ELSE IF v = NULL THEN Prim(0) ELSE Prim(1)

Init ==
  /\ fieldVal \in {0, 1}
  /\ last = Idle
  /\ prev = NoPrev
  /\ guard = [state |-> "none"]
  /\ genv = NewEnv(0, {}, FALSE, "run")
  /\ gret = NULL
  /\ str = [op |-> "none"]
  /\ pack = [op |-> "none"]

Made(op, T, target, sig, args, res) ==
  /\ last' = [op |-> op, T |-> T, target |-> target, sig |-> sig,
              args |-> args, res |-> res]
  /\ UNCHANGED <<fieldVal, prev, guard, genv, gret, str, pack>>

DoCallMethod ==
  /\ last.op = "none"
  /\ \E RetType \in JavaTypes, args \in SeqsUpTo(CallArgs, MaxArgs) :
       /\ Len(args) > 0 => RetType \in TraitTypes
       /\ \E t \in Targets(RetType, "get", "boom"), o \in Oracles(args) :
            Made("CallMethod", RetType, t.name, t.sig, args,
                 CallMethod(RetType, CallerEnv(o.oom, o.ub),
                            TheObject, t.name, t.sig, args))

DoCallStaticMethod ==
  /\ last.op = "none"
  /\ \E RetType \in JavaTypes, className \in {"A", "Missing"},
        args \in SeqsUpTo(CallArgs, MaxArgs) :
       /\ Len(args) > 0 => RetType \in TraitTypes
       /\ \E t \in Targets(RetType, "sget", "sboom"), o \in Oracles(args) :
            Made("CallStaticMethod", RetType, t.name, t.sig, args,
                 CallStaticMethod(RetType, CallerEnv(o.oom, o.ub),
                                  className, t.name, t.sig, args))

DoNewObject ==
  /\ last.op = "none"
  /\ \E className \in {"A", "Bomb", "Missing"}, sig \in {"V", NoSuchDescriptor},
        args \in SeqsUpTo(CallArgs, MaxArgs) :
       \E o \in Oracles(args) :
         Made("NewObject", "jobject", "<init>", sig, args,
              NewObject(CallerEnv(o.oom, o.ub), className, sig, args))

DoGetField ==
  /\ last.op = "none"
  /\ \E T \in JavaTypes \ {"void"}, fieldName \in {"value", "nope"} :
       \E sig \in Overrides(T) : \E u \in FieldUb(sig) :
         Made("GetField", T, fieldName, sig, <<>>,
              GetField(T, CallerEnv({}, u), TheObject, fieldName, sig))

DoGetStaticField ==
  /\ last.op = "none"
  /\ \E T \in JavaTypes \ {"void"}, className \in {"A", "Missing"},
        fieldName \in {"VALUE", "nope"} :
       \E sig \in Overrides(T) : \E u \in FieldUb(sig) :
         Made("GetStaticField", T, fieldName, sig, <<>>,
              GetStaticField(T, CallerEnv({}, u), className, fieldName, sig))

\* the caller takes the outcome and goes on (an aborted process does not)
Resume ==
  /\ last.op # "none"
  /\ ~last.res.env.aborted
  /\ prev' = [cause |-> Cause(last.res), what |-> last.res.exc.what,
              pending |-> last.res.env.pending,
              read |-> NoRead, wrote |-> FALSE]
  /\ last' = Idle
  /\ UNCHANGED <<fieldVal, guard, genv, gret, str, pack>>

\* the same, the caller keeping what a field read gave it
ResumeRead ==
  /\ last.op \in {"GetField", "GetStaticField"}
  /\ ~last.res.env.aborted
  /\ prev' = [cause |-> Cause(last.res), what |-> last.res.exc.what,
              pending |-> last.res.env.pending,
              read |-> IF last.res.thrown THEN NoRead ELSE Content(last.res.ret),
              wrote |-> FALSE]
  /\ last' = Idle
  /\ UNCHANGED <<fieldVal, guard, genv, gret, str, pack>>

\* the Java side writes value and VALUE
JavaWrite ==
  /\ last.op = "none"
  /\ fieldVal' = 1 - fieldVal
  /\ prev' = [prev EXCEPT !.wrote = (prev.read # NoRead)]
  /\ UNCHANGED <<last, guard, genv, gret, str, pack>>

Next ==
  \/ DoCallMethod
  \/ DoCallStaticMethod
  \/ DoNewObject
  \/ DoGetField
  \/ DoGetStaticField
  \/ Resume

Spec == Init /\ [][Next]_vars

NextField ==
  \/ DoGetField
  \/ DoGetStaticField
  \/ ResumeRead
  \/ JavaWrite

SpecField == Init /\ [][NextField]_vars

---------------------------------------------------------------------------
(* A ScopedLocalRef in a caller's scope: constructed with a handle, used   *)
(* through get() and release(), destroyed at the end of the scope.         *)
(* guard.calls is the calls made on it, each with what it returned.        *)

GuardHandles ==
  {NULL, Ref("class", "A", <<>>, 1), Ref("string", "", <<97>>, 1),
   Ref("object", "b", <<>>, 1)}

GuardConstruct ==
  /\ guard.state = "none"
  /\ \E h \in GuardHandles :
       guard' = [state |-> "live", h |-> h, obj |-> ScopedLocalRef(h), calls |-> <<>>]
  /\ UNCHANGED <<fieldVal, last, prev, genv, gret, str, pack>>

GuardCall(op, r) ==
  /\ guard' = [guard EXCEPT !.obj = r.guard,
                            !.calls = Append(@, [op |-> op, ret |-> r.ret])]
  /\ gret' = r.ret
  /\ UNCHANGED <<fieldVal, last, prev, genv, str, pack>>

GuardGet ==
  /\ guard.state = "live"
  /\ Len(guard.calls) < MaxGuardCalls
  /\ GuardCall("get", ScopedLocalRef_get(guard.obj))

GuardRelease ==
  /\ guard.state = "live"
  /\ Len(guard.calls) < MaxGuardCalls
  /\ GuardCall("release", ScopedLocalRef_release(guard.obj))

GuardDestroy ==
  /\ guard.state = "live"
  /\ genv' = ScopedLocalRef_dtor(genv, guard.obj)
  /\ guard' = [guard EXCEPT !.state = "dead"]
  /\ UNCHANGED <<fieldVal, last, prev, gret, str, pack>>

NextGuard ==
  \/ GuardConstruct
  \/ GuardGet
  \/ GuardRelease
  \/ GuardDestroy

SpecGuard == Init /\ [][NextGuard]_vars

---------------------------------------------------------------------------
(* The string conversions, each applied once to an input of the caller's.  *)

\* what a text is made of: a NUL byte, "a", U+0000 and U+00E9 in modified
\* UTF-8 (C0 80, C3 A9), and U+00E9 in ISO 8859-1 (E9), which is no
\* modified UTF-8
TextUnits == {<<0>>, <<97>>, <<192, 128>>, <<195, 169>>, <<233>>}

RECURSIVE Flatten(_)
Flatten(ss) == IF ss = <<>> THEN <<>> ELSE Head(ss) \o Flatten(Tail(ss))

\* the contents of the std::strings given
Texts == {Flatten(u) : u \in SeqsUpTo(TextUnits, MaxTextLen)}

\* the runtime's choices for a text given to NewStringUTF
TextUb(s) == IF WellFormed(CStr(s)) THEN {"run"} ELSE {"run", "abort"}

\* the Java strings given
JStrings ==
  {NULL} \cup {Ref("string", "", cs, 0) : cs \in SeqsUpTo({0, 97, 233}, MaxTextLen)}

\* JStringToString(env, StringToJString(env, s))
RoundTrip(env, s) ==
  LET j == StringToJString(env, s)
  IN  [jstr |-> j.ret, back |-> JStringToString(j.env, j.ret)]

DoStringToJString ==
  /\ str.op = "none"
  /\ \E s \in Texts, oom \in SUBSET {1} : \E u \in TextUb(s) :
       str' = [op |-> "StringToJString", s |-> s,
               res |-> StringToJString(NewEnv(0, oom, FALSE, u), s)]
  /\ UNCHANGED <<fieldVal, last, prev, guard, genv, gret, pack>>

DoJStringToString ==
  /\ str.op = "none"
  /\ \E jstr \in JStrings, cf \in BOOLEAN :
       str' = [op |-> "JStringToString", jstr |-> jstr,
               res |-> JStringToString(NewEnv(0, {}, cf, "run"), jstr)]
  /\ UNCHANGED <<fieldVal, last, prev, guard, genv, gret, pack>>

DoRoundTrip ==
  /\ str.op = "none"
  /\ \E s \in Texts, oom \in SUBSET {1}, cf \in BOOLEAN : \E u \in TextUb(s) :
       str' = [op |-> "RoundTrip", s |-> s,
               res |-> RoundTrip(NewEnv(0, oom, cf, u), s)]
  /\ UNCHANGED <<fieldVal, last, prev, guard, genv, gret, pack>>

NextString ==
  \/ DoStringToJString
  \/ DoJStringToString
  \/ DoRoundTrip

SpecString == Init /\ [][NextString]_vars

---------------------------------------------------------------------------
(* The packer on its own, applied once to an argument list.                *)

PackArgs ==
  {[cpp |-> T, v |-> Prim(1)] : T \in PrimTypes}
  \cup {[cpp |-> "nullptr_t", v |-> NULL],
        [cpp |-> "jobject", v |-> TheObject],
        [cpp |-> "jstring", v |-> Ref("string", "", <<98>>, 0)],
        [cpp |-> "std::string", v |-> Text(<<97>>)],
        [cpp |-> "std::string", v |-> Text(<<98, 0, 97>>)],
        [cpp |-> "const char*", v |-> NULL],
        [cpp |-> "const char*", v |-> Text(<<97, 0>>)]}

DoPack ==
  /\ pack.op = "none"
  /\ \E args \in SeqsUpTo(PackArgs, MaxPackArgs) : \E o \in Oracles(args) :
       pack' = [op |-> "ArgsToJValues", args |-> args,
                o |-> ArgsToJValues(NewEnv(0, o.oom, FALSE, o.ub), args)]
  /\ UNCHANGED <<fieldVal, last, prev, guard, genv, gret, str>>

NextPack == DoPack

SpecPack == Init /\ [][NextPack]_vars

---------------------------------------------------------------------------
(* The exception bridge, as the caller of a high-level call sees it.       *)

\* a high-level call has been made and its outcome is in last
Called == last.op # "none"

\* the JNI calls the call made, in order
Log == last.res.env.log

\* the exception a faulting target raises
TargetFault == "java/lang/RuntimeException"

\* the positions in the log at which the bridge cleared a pending exception
Cleared == {i \in DOMAIN Log : Log[i].fn = "ExceptionClear"}

\* C1: when the target of a high-level call raises an exception and the
\* process goes on, the call ends in a JNIException whose getJavaException()
\* is a non-null throwable handle naming the exception that was pending when
\* the bridge cleared it, which is the target's; nothing is pending on the
\* JNIEnv afterwards; and the next call made on that JNIEnv, if no JNI
\* function of it raises, finds nothing pending and returns normally.
C1_TargetFaultBridged ==
  /\ (Called /\ RaisedIn(Log, TargetFns) /\ ~last.res.env.aborted) =>
       /\ last.res.thrown
       /\ getJavaException(last.res.exc) # NULL
       /\ getJavaException(last.res.exc).kind = "throwable"
       /\ getJavaException(last.res.exc).name = TargetFault
       /\ Cleared # {}
       /\ \A i \in Cleared : Log[i].pend = getJavaException(last.res.exc).name
       /\ last.res.env.pending = NULL
  /\ (Called /\ prev.cause = "target" /\ Raised(Log) = {}) =>
       /\ ~last.res.thrown
       /\ \A i \in DOMAIN Log : Log[i].pend = ""

\* a call whose target raised has been bridged, and the call after it on the
\* same JNIEnv, a method call with an argument, has returned normally
C1_Witness ==
  /\ Called
  /\ prev.cause = "target"
  /\ last.op = "CallMethod"
  /\ Len(last.args) = 1
  /\ ~last.res.thrown
  /\ last.res.ret = Prim(fieldVal)

\* C2: every JNI call that raises is followed at once by the bridge's
\* ExceptionCheck, and no JNI function other than the exception functions
\* and the releases is called while an exception is pending.
C2_EveryCallChecked ==
  Called =>
    \A i \in DOMAIN Log :
      /\ Log[i].raised => (i < Len(Log) /\ Log[i + 1].fn = "ExceptionCheck")
      /\ Log[i].fn \notin ExceptionSafe => Log[i].pend = ""

\* the kind of error a caller can tell from the C++ exception alone: there
\* is one exception class, so its what()
ErrorKind(what) == [class |-> "jni::JNIException", what |-> what]

\* C3, as stated: a call that fails in the member lookup fails with an
\* error of another kind than a call whose target raised.
C3_LookupKindDistinct ==
  (Called /\ prev.cause = "target" /\ Cause(last.res) = "lookup") =>
    ErrorKind(last.res.exc.what) # ErrorKind(prev.what)

\* C3: a call whose member lookup raises (no member of that name, or none
\* with that signature) ends in a JNIException with the message every bridged
\* exception has, the same as that of a call whose target raised; it carries
\* the runtime's NoSuchMethodError or NoSuchFieldError as a non-null handle,
\* which a target fault's JNIException does not; the target is never
\* invoked and nothing is left pending.
C3_LookupFailureBridged ==
  /\ (Called /\ RaisedIn(Log, LookupFns) /\ ~last.res.env.aborted) =>
       /\ last.res.thrown
       /\ last.res.exc.what = "JNI exception occurred"
       /\ getJavaException(last.res.exc).kind = "throwable"
       /\ getJavaException(last.res.exc).name \in
            {"java/lang/NoSuchMethodError", "java/lang/NoSuchFieldError"}
       /\ getJavaException(last.res.exc).name # TargetFault
       /\ \A i \in DOMAIN Log : Log[i].fn \notin TargetFns
       /\ last.res.env.pending = NULL
  /\ (Called /\ prev.cause = "target" /\ Cause(last.res) = "lookup") =>
       last.res.exc.what = prev.what

\* a call with a signature no member has, failed in the lookup, after a call
\* whose target raised
C3_Witness ==
  /\ Called
  /\ prev.cause = "target"
  /\ Cause(last.res) = "lookup"
  /\ last.sig = NoSuchDescriptor
  /\ getJavaException(last.res.exc).name = "java/lang/NoSuchMethodError"

---------------------------------------------------------------------------
(* The scoped handle.                                                      *)

\* the DeleteLocalRef calls made on the guard's JNIEnv
Deletes == SelectSeq(genv.log, LAMBDA e : e.fn = "DeleteLocalRef")

\* release() is among the first n calls made on the guard
ReleasedWithin(n) == \E i \in 1..n : guard.calls[i].op = "release"

\* C4: for a guard constructed with handle h, the number of DeleteLocalRef
\* calls made over its lifetime is 1, for h, when h is non-null and
\* release() was never called, and 0 otherwise; none is made before the
\* guard is destroyed.
C4_DeletesOnceOrNever ==
  /\ guard.state = "live" => Deletes = <<>>
  /\ guard.state = "dead" =>
       IF guard.h # NULL /\ ~ReleasedWithin(Len(guard.calls))
       THEN Len(Deletes) = 1 /\ Deletes[1].h = guard.h
       ELSE Deletes = <<>>

\* a guard of a non-null handle was read, released and then destroyed, and
\* no DeleteLocalRef was made
C4_Witness ==
  /\ guard.state = "dead"
  /\ guard.h # NULL
  /\ ReleasedWithin(Len(guard.calls))
  /\ guard.calls[1].op = "get"
  /\ Deletes = <<>>

\* C5: every get() and release() returns the handle the guard holds when
\* it is called: the handle it was constructed with while release() has not
\* been called, null after; get() leaves the guard's handle as it is, and
\* after release() the guard holds null.
C5_GetAndRelease ==
  guard.state # "none" =>
    /\ \A j \in DOMAIN guard.calls :
         guard.calls[j].ret = IF ReleasedWithin(j - 1) THEN NULL ELSE guard.h
    /\ guard.obj.ref_ = IF ReleasedWithin(Len(guard.calls)) THEN NULL ELSE guard.h
    /\ guard.calls # <<>> => gret = guard.calls[Len(guard.calls)].ret

\* get(), release(), get() on a guard of a non-null handle: the handle
\* twice, then null
C5_Witness ==
  /\ guard.state = "live"
  /\ guard.h # NULL
  /\ Len(guard.calls) = 3
  /\ guard.calls[1] = [op |-> "get", ret |-> guard.h]
  /\ guard.calls[2] = [op |-> "release", ret |-> guard.h]
  /\ guard.calls[3] = [op |-> "get", ret |-> NULL]

---------------------------------------------------------------------------
(* The argument packer.                                                    *)

\* the NewStringUTF calls the packer made, in order
Created == SelectSeq(pack.o.env.log, LAMBDA e : e.fn = "NewStringUTF")

\* the cell the packer is to fill for argument i: a primitive in the member
\* of its type, a handle (or null) in l, and for character data the string
\* NewStringUTF made of it, null if it made none
ExpectedCell(i) ==
  LET arg == pack.args[i]
      k   == NumStrings(SubSeq(pack.args, 1, i))
  IN  IF IsStringArg(arg) THEN [slot |-> "l", v |-> Created[k].out]
      ELSE IF arg.cpp \in PrimTypes THEN [slot |-> Slot(arg.cpp), v |-> arg.v]
      ELSE [slot |-> "l", v |-> arg.v]

\* C6: for N arguments the jvalue array has max(N, 1) cells; when the
\* process goes on, cell i holds argument i converted, for every i < N; the
\* cells are written in order, each once, and none at an index >= N; every
\* string NewStringUTF makes has the characters of its argument up to the
\* first NUL.
C6_PackedInOrder ==
  pack.op # "none" =>
    /\ Len(ArgsToJValues_get(pack.o)) = IF Len(pack.args) > 0 THEN Len(pack.args) ELSE 1
    /\ ~pack.o.env.aborted =>
         /\ pack.o.writes = [i \in 1..Len(pack.args) |-> i - 1]
         /\ Len(Created) = NumStrings(pack.args)
         /\ \A i \in 1..Len(pack.args) :
              /\ ArgsToJValues_get(pack.o)[i] = ExpectedCell(i)
              /\ (IsStringArg(pack.args[i]) /\ ExpectedCell(i).v # NULL) =>
                   ExpectedCell(i).v.chars = Utf8Decode(CStr(pack.args[i].v.chars))
         /\ Len(pack.args) = 0 => ArgsToJValues_get(pack.o) = <<Uninitialised>>

\* a jint and a std::string were packed: the number in cell 0, the new
\* string in cell 1
C6_Witness ==
  /\ pack.op # "none"
  /\ Len(pack.args) = 2
  /\ pack.args[1].cpp = "jint"
  /\ pack.args[2].cpp = "std::string"
  /\ ArgsToJValues_get(pack.o)[1] = [slot |-> "i", v |-> Prim(1)]
  /\ ArgsToJValues_get(pack.o)[2].v.kind = "string"
  /\ ArgsToJValues_get(pack.o)[2].v.chars = <<98>>

---------------------------------------------------------------------------
(* The string conversions.                                                 *)

\* the JNI calls a conversion made
StrLog == str.res.env.log

\* C7: JStringToString has no failing outcome: it returns a std::string and
\* checks for no exception; given a null handle it returns the empty string
\* and makes no JNI call; when GetStringUTFChars returns null it returns the
\* empty string and makes no further JNI call.
C7_NeverFails ==
  str.op = "JStringToString" =>
    /\ DOMAIN str.res = {"env", "ret"}
    /\ \A i \in DOMAIN StrLog :
         StrLog[i].fn \in {"GetStringUTFChars", "ReleaseStringUTFChars"}
    /\ str.jstr = NULL => (str.res.ret = <<>> /\ StrLog = <<>>)
    /\ (str.jstr # NULL /\ StrLog[1].out = NULL) =>
         (str.res.ret = <<>> /\ Len(StrLog) = 1)

\* GetStringUTFChars failed on a string that has characters, and the
\* conversion returned the empty string
C7_Witness ==
  /\ str.op = "JStringToString"
  /\ str.jstr # NULL
  /\ str.jstr.chars # <<>>
  /\ StrLog[1].fn = "GetStringUTFChars"
  /\ StrLog[1].raised
  /\ str.res.ret = <<>>

\* the text of a round trip has no NUL byte, NewStringUTF made a string of
\* it and GetStringUTFChars exposed its characters
RoundTripRan ==
  /\ str.op = "RoundTrip"
  /\ \A i \in DOMAIN str.s : str.s[i] # 0
  /\ str.res.jstr # NULL
  /\ Len(str.res.back.env.log) = 3
  /\ str.res.back.env.log[2].out # NULL

---------------------------------------------------------------------------
(* The field reads.                                                        *)

\* the positions in the log of the field ID lookups and of the field reads
Lookups == {i \in DOMAIN Log : Log[i].fn \in {"GetFieldID", "GetStaticFieldID"}}

Reads == {i \in DOMAIN Log : Log[i].fn \in {"GetField", "GetStaticField"}}

\* the caller asked for the field through the type it has
ReadAsDeclared == last.sig \in {"", Descriptor(last.T)}

---------------------------------------------------------------------------
(* The steps of a high-level call.                                         *)

ClassFns == {"GetObjectClass", "FindClass"}

\* the step of a high-level call a JNI call belongs to: resolving the class,
\* resolving the member, packing, the target, releasing the class; none for
\* the calls of the exception bridge
Step(e) ==
  CASE e.fn \in ClassFns        -> "class"
    [] e.fn \in LookupFns       -> "member"
    [] e.fn = "NewStringUTF"    -> "pack"
    [] e.fn \in TargetFns       -> "target"
    [] e.fn = "DeleteLocalRef"  -> "release"
    [] OTHER                    -> "bridge"

\* the positions in the log of the calls of a step
At(step) == {i \in DOMAIN Log : Step(Log[i]) = step}

\* the steps that may come after a step
After(step) ==
  CASE step = "class"   -> {"member", "pack", "target", "release"}
    [] step = "member"  -> {"pack", "target", "release"}
    [] step = "pack"    -> {"pack", "target", "release"}
    [] step = "target"  -> {"release"}
    [] step = "release" -> {}

\* C11: the JNI calls of a high-level call come in the order class, member,
\* strings of the packer, target, and the target is followed at once by the
\* bridge's ExceptionCheck; a call that returns has made all of them, one
\* string for each string argument; when the class or the member lookup
\* raises, the call ends in a JNIException, the bridge's four calls follow
\* the lookup at once, and no NewStringUTF and no target call is made.
C11_StepsInOrder ==
  Called =>
    /\ Log # <<>> /\ Step(Log[1]) = "class"
    /\ \A i, j \in DOMAIN Log :
         (i < j /\ Step(Log[i]) # "bridge" /\ Step(Log[j]) # "bridge") =>
           Step(Log[j]) \in After(Step(Log[i]))
    /\ ~last.res.env.aborted =>
         \A t \in At("target") : t < Len(Log) /\ Log[t + 1].fn = "ExceptionCheck"
    /\ (~last.res.thrown /\ ~last.res.env.aborted) =>
         /\ Cardinality(At("class")) = 1
         /\ Cardinality(At("member")) = 1
         /\ Cardinality(At("target")) = 1
         /\ Cardinality(At("pack")) = NumStrings(last.args)
    /\ \A i \in At("class") \cup At("member") :
         Log[i].raised =>
           /\ last.res.thrown
           /\ At("pack") = {} /\ At("target") = {}
           /\ Len(Log) >= i + 4
           /\ <<Log[i + 1].fn, Log[i + 2].fn, Log[i + 3].fn, Log[i + 4].fn>> =
                <<"ExceptionCheck", "ExceptionOccurred", "ExceptionDescribe",
                  "ExceptionClear">>
           /\ \A j \in (i + 5)..Len(Log) : Step(Log[j]) = "release"

\* NewObject with a string argument failed in the lookup of the constructor
\* and made no string
C11_Witness ==
  /\ Called
  /\ last.op = "NewObject"
  /\ Len(last.args) = 1
  /\ IsStringArg(last.args[1])
  /\ Cause(last.res) = "lookup"
  /\ At("pack") = {}

---------------------------------------------------------------------------
(* The character buffer of JStringToString.                                *)

\* the positions in the log at which a buffer was acquired, and released
Acquired == {i \in DOMAIN StrLog : StrLog[i].fn = "GetStringUTFChars" /\ StrLog[i].out # NULL}

Released == {i \in DOMAIN StrLog : StrLog[i].fn = "ReleaseStringUTFChars"}

\* C12: a JStringToString that acquires the buffer (GetStringUTFChars
\* returns non-null) returns a copy of the buffer up to its terminator and
\* releases the buffer once, with the string it was acquired from, as its
\* last JNI call; one that acquires none (null handle, null buffer) releases
\* none; and DeleteLocalRef is never called.
C12_BufferReleasedOnce ==
  str.op = "JStringToString" =>
    /\ Cardinality(Acquired) <= 1
    /\ Cardinality(Released) = Cardinality(Acquired)
    /\ \A g \in Acquired :
         /\ Released = {Len(StrLog)}
         /\ g < Len(StrLog)
         /\ StrLog[Len(StrLog)].h = str.jstr
         /\ StrLog[Len(StrLog)].args = StrLog[g].out.chars
         /\ str.res.ret = CStr(StrLog[g].out.chars)
    /\ \A i \in DOMAIN StrLog : StrLog[i].fn # "DeleteLocalRef"

\* the buffer of a string with characters was acquired, copied and released
C12_Witness ==
  /\ str.op = "JStringToString"
  /\ str.jstr # NULL
  /\ Acquired = {1}
  /\ Released = {2}
  /\ str.res.ret = <<97, 195, 169>>

---------------------------------------------------------------------------
(* Local references.  Every JNI call that returns a handle returns a new   *)
(* local reference; DeleteLocalRef gives one back.                         *)

\* the local references made during the call and not deleted
Outstanding ==
  {Log[i].out : i \in {j \in DOMAIN Log : IsRef(Log[j].out)}}
  \ {Log[i].h : i \in At("release")}

\* the references the call hands to its caller: its result, and the
\* throwable in the JNIException
HandedBack == {last.res.ret, getJavaException(last.res.exc)}

Leaked == Outstanding \ HandedBack

\* the strings the packer made
StringsMade == {Log[i].out : i \in {j \in At("pack") : Log[j].out # NULL}}

\* the position in the log of the packer's k-th NewStringUTF
PackPos(k) == CHOOSE p \in At("pack") : Cardinality({q \in At("pack") : q <= p}) = k

\* the cell of the jvalue array the target was called with, for argument i
CellFor(i) ==
  IF IsStringArg(last.args[i])
  THEN Log[PackPos(NumStrings(SubSeq(last.args, 1, i)))].out
  ELSE last.args[i].v

\* every NewStringUTF of the packer made a string
AllStringsMade == \A i \in At("pack") : Log[i].out # NULL

\* C13, as stated: after a high-level call with k string arguments returns
\* or fails, k local references the wrapper made remain outstanding.
C13_KStringsLeftAlways ==
  (Called /\ ~last.res.env.aborted /\ AllStringsMade) =>
    Cardinality(Leaked) = NumStrings(last.args)

\* C13: a high-level call that gets as far as its target has called
\* NewStringUTF once for each std::string and non-null const char* argument,
\* in order, and for no other argument, and has passed the target an array
\* whose cell i holds that call's result for a string argument and the
\* argument itself for any other (null for nullptr and a null const char*,
\* the handle given for a reference); the strings made are never deleted
\* and are outstanding when the call returns or throws, k of them and
\* nothing else of the wrapper's when every NewStringUTF made one; a call
\* that fails in the class or member lookup has made none and leaves none.
C13_StringsLeft ==
  Called =>
    /\ StringsMade \subseteq Leaked
    /\ \A h \in StringsMade : h.kind = "string"
    /\ (~last.res.env.aborted /\ At("target") # {}) =>
         /\ Cardinality(At("pack")) = NumStrings(last.args)
         /\ \A t \in At("target") :
              /\ Len(last.args) > 0 => Len(Log[t].args) = Len(last.args)
              /\ \A i \in 1..Len(last.args) : Log[t].args[i].v = CellFor(i)
         /\ AllStringsMade =>
              /\ Leaked = StringsMade
              /\ Cardinality(Leaked) = NumStrings(last.args)
    /\ (\E i \in At("class") \cup At("member") : Log[i].raised) =>
         /\ At("pack") = {}
         /\ Leaked = {}

\* a method call with a std::string argument returned, and the string made
\* for it is still there
C13_Witness ==
  /\ Called
  /\ last.op = "CallMethod"
  /\ Len(last.args) = 1
  /\ last.args[1].cpp = "std::string"
  /\ ~last.res.thrown
  /\ Cardinality(Leaked) = 1
  /\ \E h \in Leaked : h.kind = "string" /\ h.chars = <<97>>

---------------------------------------------------------------------------
(* The two ways of calling a method.                                       *)

\* C14: CallMethod and CallStaticMethod without arguments call
\* Call<Type>Method / CallStatic<Type>Method of the return type, with no
\* jvalue array and no packing; with arguments they call the A form of the
\* return type with an array of one cell for each argument; either call is
\* followed at once by the bridge's ExceptionCheck, and a call that returns
\* returns what the JNI call returned, which for a method that returns the
\* field is the field's content on both paths.  NewObject calls NewObjectA
\* in every case, with an array of max(N, 1) cells, the one cell of N = 0
\* never written.
C14_DirectAndArrayPaths ==
  Called =>
    \A t \in At("target") :
      /\ ~last.res.env.aborted =>
           (t < Len(Log) /\ Log[t + 1].fn = "ExceptionCheck")
      /\ last.op \in {"CallMethod", "CallStaticMethod"} =>
           /\ Log[t].ty = TypeTag(last.T)
           /\ Len(last.args) = 0 =>
                /\ Log[t].fn = last.op
                /\ Log[t].args = <<>>
                /\ At("pack") = {}
           /\ Len(last.args) > 0 =>
                /\ Log[t].fn = IF last.op = "CallMethod" THEN "CallMethodA"
                               ELSE "CallStaticMethodA"
                /\ Len(Log[t].args) = Len(last.args)
           /\ (~last.res.thrown /\ ~last.res.env.aborted) =>
                /\ last.res.ret = Log[t].out
                /\ (last.target \in {"get", "sget"} /\ last.T # "void") =>
                     Content(last.res.ret) = Prim(fieldVal)
      /\ last.op = "NewObject" =>
           /\ Log[t].fn = "NewObjectA"
           /\ Len(Log[t].args) = IF Len(last.args) > 0 THEN Len(last.args) ELSE 1
           /\ Len(last.args) = 0 => Log[t].args = <<Uninitialised>>
           /\ (~last.res.thrown /\ ~last.res.env.aborted) => last.res.ret = Log[t].out

\* a static method was called with an argument, through
\* CallStaticIntMethodA, and returned the field, after a call that returned
C14_Witness ==
  /\ Called
  /\ prev.cause = "ok"
  /\ last.op = "CallStaticMethod"
  /\ last.T = "jint"
  /\ Len(last.args) = 1
  /\ ~last.res.thrown
  /\ last.res.ret = Prim(fieldVal)
  /\ \E t \in At("target") : Log[t].fn = "CallStaticMethodA" /\ Log[t].ty = "Int"

---------------------------------------------------------------------------
(* The class handle of a high-level call, and what is pending at its end.  *)

\* C15: a high-level call whose class resolution gave a handle, and that
\* returns or throws, has called DeleteLocalRef once, on that handle, as its
\* last JNI call, after the member lookup, the packing, the target and the
\* bridge; one whose FindClass raised has called it not at all; no call
\* calls it twice.
C15_ClassHandleReleasedOnce ==
  Called =>
    /\ Cardinality(At("release")) <= 1
    /\ Log[1].raised => At("release") = {}
    /\ (~Log[1].raised /\ ~last.res.env.aborted) =>
         /\ Log[1].out.kind = "class"
         /\ At("release") = {Len(Log)}
         /\ Log[Len(Log)].h = Log[1].out

\* a static method threw, and the class handle was deleted after the bridge
\* had cleared the exception
C15_Witness ==
  /\ Called
  /\ last.op = "CallStaticMethod"
  /\ Cause(last.res) = "target"
  /\ At("release") = {Len(Log)}
  /\ Log[Len(Log) - 1].fn = "ExceptionClear"
  /\ Log[Len(Log)].h = Log[1].out

\* C16: when a high-level call hands control back, by returning or by
\* throwing, nothing is pending on the JNIEnv; the bridge has called
\* ExceptionClear once for each exception a JNI call of it raised; and it
\* has thrown only after an ExceptionCheck that found one pending.
C16_NothingPendingEachClearedOnce ==
  (Called /\ ~last.res.env.aborted) =>
    /\ last.res.env.pending = NULL
    /\ Cardinality(Cleared) = Cardinality(Raised(Log))
    /\ last.res.thrown =>
         \E i \in DOMAIN Log : Log[i].fn = "ExceptionCheck" /\ Log[i].out = Prim(1)

============================================================================
